---- MODULE Spec2Model ----
(***************************************************************************)
(* A model of myCron (src/myCron.ts): an in-process cron scheduler.       *)
(*                                                                         *)
(* Strings the code inspects character by character (cron expressions and *)
(* their fields) are sequences of one-character strings.  A nullable or   *)
(* optional value is None (<<>>) or Some(v) (<<v>>).  StoredTask objects  *)
(* live in `heap`, keyed by an object identity; `tasks` (the array of     *)
(* line 32) holds identities, as do the dispatch closures of line 205.    *)
(***************************************************************************)
EXTENDS Integers, Sequences, FiniteSets, TLC

None == <<>>
Some(v) == <<v>>

(***************************************************************************)
(* String helpers: what the JavaScript built-ins used by the code do.     *)
(***************************************************************************)
Digits == {"0", "1", "2", "3", "4", "5", "6", "7", "8", "9"}

DigitVal(c) ==
    CASE c = "0" -> 0 [] c = "1" -> 1 [] c = "2" -> 2 [] c = "3" -> 3
      [] c = "4" -> 4 [] c = "5" -> 5 [] c = "6" -> 6 [] c = "7" -> 7
      [] c = "8" -> 8 [] c = "9" -> 9

\* parseInt(s, 10) on a string of decimal digits
RECURSIVE parseInt(_)
parseInt(s) ==
    IF s = <<>> THEN 0
    ELSE 10 * parseInt(SubSeq(s, 1, Len(s) - 1)) + DigitVal(s[Len(s)])

\* s.replace(/ +/g, ' '): every run of spaces becomes one space
RECURSIVE CollapseSpaces(_)
CollapseSpaces(s) ==
    IF Len(s) < 2 THEN s
    ELSE IF s[1] = " " /\ s[2] = " " THEN CollapseSpaces(Tail(s))
    ELSE <<s[1]>> \o CollapseSpaces(Tail(s))

\* s.trim() (the only white space of the model's alphabet is the space)
RECURSIVE Trim(_)
Trim(s) ==
    IF s = <<>> THEN s
    ELSE IF s[1] = " " THEN Trim(Tail(s))
    ELSE IF s[Len(s)] = " " THEN Trim(SubSeq(s, 1, Len(s) - 1))
    ELSE s

\* s.split(sep) for a one-character separator: "" splits to [""]
RECURSIVE Split(_, _)
Split(s, sep) ==
    IF \A i \in 1..Len(s) : s[i] # sep THEN <<s>>
    ELSE LET k == CHOOSE i \in 1..Len(s) :
                      s[i] = sep /\ \A j \in 1..(i - 1) : s[j] # sep
         IN  <<SubSeq(s, 1, k - 1)>> \o Split(SubSeq(s, k + 1, Len(s)), sep)

\* /^[0-9]+$/.test(s)
IsNumber(s) == Len(s) >= 1 /\ \A i \in 1..Len(s) : s[i] \in Digits

\* /^[0-9]+-[0-9]+$/.test(s)
IsRange(s) ==
    \E k \in 1..Len(s) :
        /\ s[k] = "-"
        /\ IsNumber(SubSeq(s, 1, k - 1))
        /\ IsNumber(SubSeq(s, k + 1, Len(s)))

\* /^[0-9-]+(,([0-9-]+))+$/.test(s)
IsList(s) ==
    LET parts == Split(s, ",")
    IN  /\ Len(parts) >= 2
        /\ \A i \in 1..Len(parts) :
              /\ Len(parts[i]) >= 1
              /\ \A j \in 1..Len(parts[i]) : parts[i][j] \in Digits \cup {"-"}

\* [...new Set(a)].sort((a, b) => a - b)
RECURSIVE SortedSeq(_)
SortedSeq(S) ==
    IF S = {} THEN <<>>
    ELSE LET m == CHOOSE x \in S : \A y \in S : x <= y
         IN  <<m>> \o SortedSeq(S \ {m})

UniqueSorted(a) == SortedSeq({a[i] : i \in 1..Len(a)})

\* the array [lo, lo + 1, ..., hi] built by the for loops of lines 112 and 129
Upto(lo, hi) == [i \in 1..(hi - lo + 1) |-> lo + i - 1]

(***************************************************************************)
(* parseTimeExpression (lines 108-154).  The result is a record: threw    *)
(* tells whether the call ended by the throw of line 153, val is the      *)
(* array returned by line 151, msg the thrown error's message.            *)
(***************************************************************************)
Returned(a) == [threw |-> FALSE, val |-> a, msg |-> <<>>]
Threw(m) == [threw |-> TRUE, val |-> <<>>, msg |-> m]

\* the `every` of lines 137-148 over arr[i..]: acc is retVal so far
RECURSIVE parseTimeExpression(_, _, _), EveryTerm(_, _, _, _, _)
EveryTerm(arr, i, acc, min, max) ==
    IF i > Len(arr) THEN Returned(UniqueSorted(acc))
    ELSE LET values == parseTimeExpression(arr[i], min, max)
         IN  IF values.threw THEN Threw(<<>>)
             ELSE EveryTerm(arr, i + 1, acc \o values.val, min, max)

\* Fault for C11: a range whose ends are equal is accepted.
ParseRangeOrEqual(arr, min, max) ==
    LET mn == parseInt(arr[1])
        mx == parseInt(arr[2])
    IN  IF mn >= min /\ mx <= max /\ mx >= mn
        THEN Returned(UniqueSorted(Upto(mn, mx)))
        ELSE Threw(<<>>)

\* lines 124-134, entered with ok = FALSE and retVal = []
ParseRange(arr, min, max) ==
    LET mn == parseInt(arr[1])
        mx == parseInt(arr[2])
    IN  IF mn >= min /\ mx <= max /\ mx > mn
        THEN Returned(UniqueSorted(Upto(mn, mx)))
        ELSE Threw(<<>>)

\* Fault for C17: a single value is not tested against max.
ParseNumberAboveMax(val, min, max) ==
    IF val >= min THEN Returned(UniqueSorted(<<val>>)) ELSE Threw(<<>>)

\* lines 117-123, entered with ok = FALSE and retVal = []
ParseNumber(val, min, max) ==
    IF val >= min /\ val <= max THEN Returned(UniqueSorted(<<val>>)) ELSE Threw(<<>>)

\* Each `if` of lines 111-149 is skipped once ok is set, and sets ok only when
\* it pushes to retVal; a text matches at most one of the four patterns.
ParseForms(timeExpression, min, max) ==
    IF timeExpression = <<"*">> THEN Returned(UniqueSorted(Upto(min, max)))
    ELSE IF IsNumber(timeExpression)
    THEN ParseNumber(parseInt(timeExpression), min, max)
    ELSE IF IsRange(timeExpression)
    THEN ParseRange(Split(timeExpression, "-"), min, max)
    ELSE IF IsList(timeExpression)
    THEN EveryTerm(Split(timeExpression, ","), 1, <<>>, min, max)
    ELSE Threw(<<>>)

parseTimeExpression(timeExpression, min, max) ==
    LET r == ParseForms(timeExpression, min, max)
    IN  IF r.threw THEN Threw(<<"Invalid expression: ", timeExpression>>) ELSE r

(***************************************************************************)
(* existsInArray (lines 156-180)                                          *)
(***************************************************************************)
SmallArrayLimit == 10

\* the while loop of lines 166-178
RECURSIVE BinarySearch(_, _, _, _)
BinarySearch(arr, value, minIdx, maxIdx) ==
    IF minIdx > maxIdx THEN FALSE
    ELSE LET midIdx == (minIdx + maxIdx) \div 2
             testResult == value - arr[midIdx + 1]
         IN  IF testResult < 0 THEN BinarySearch(arr, value, minIdx, midIdx - 1)
             ELSE IF testResult > 0 THEN BinarySearch(arr, value, midIdx + 1, maxIdx)
             ELSE TRUE

existsInArray(arr, value) ==
    IF Len(arr) < SmallArrayLimit THEN \E i \in 1..Len(arr) : arr[i] = value
    ELSE IF arr[1] < value \/ arr[Len(arr)] > value THEN FALSE
    ELSE BinarySearch(arr, value, 0, Len(arr) - 1)

(***************************************************************************)
(* Inputs.  A Date is the record of what its getters return (getMinutes,  *)
(* getSeconds, getHours, getDate, getMonth, getDay, getFullYear).         *)
(***************************************************************************)
BaseDate ==
    [minutes |-> 0, seconds |-> 0, hours |-> 3, date |-> 10, month |-> 5,
     day |-> 2, fullYear |-> 2025]

\* 2025-06-10 (a Tuesday) 03:00:00 and dates that differ from it in one getter
Dates ==
    { BaseDate,
      [BaseDate EXCEPT !.minutes = 5],
      [BaseDate EXCEPT !.seconds = 58],
      [BaseDate EXCEPT !.hours = 12],
      [BaseDate EXCEPT !.day = 6],
      [BaseDate EXCEPT !.fullYear = 2026] }

Sp == <<" ">>
Star == <<"*">>
Quarters == <<"0", ",", "1", "5", ",", "3", "0", ",", "4", "5">>
Night == <<"0", "-", "6">>
MonThu == <<"1", "-", "4">>
Tenth == <<"1", "0">>
Y(a, b, c, d) == <<a, b, c, d>>
\* "0,15,30,45 0-6 * * 1-4" (the example of lines 27-29)
ExprQuarter ==
    Quarters \o Sp \o Night \o Sp \o Star \o Sp \o Star \o Sp \o MonThu
\* "0,15,30,45  0-6 10 6 1-4 " (two spaces after the first field, one trailing)
ExprTenth ==
    Quarters \o Sp \o Sp \o Night \o Sp \o Tenth \o Sp \o <<"6">> \o Sp
        \o MonThu \o Sp
\* "0,1 3 10 6 2 <year>"
ExprYear(y) ==
    <<"0", ",", "1">> \o Sp \o <<"3">> \o Sp \o Tenth \o Sp \o <<"6">> \o Sp
        \o <<"2">> \o Sp \o y
\* "* * * * * 2025"
ExprStarYear ==
    Star \o Sp \o Star \o Sp \o Star \o Sp \o Star \o Sp \o Star \o Sp
        \o Y("2", "0", "2", "5")
\* "0 3 10 6" (four fields)
ExprFour == <<"0">> \o Sp \o <<"3">> \o Sp \o Tenth \o Sp \o <<"6">>
\* "0,1 3 10 6 2 2025 1" (seven fields)
ExprSeven == ExprYear(Y("2", "0", "2", "5")) \o Sp \o <<"1">>
\* "0 3 32 6 2" (day of month out of range)
ExprBadDay ==
    <<"0">> \o Sp \o <<"3">> \o Sp \o <<"3", "2">> \o Sp \o <<"6">> \o Sp \o <<"2">>

T1 == <<"t", "1">>
T2 == <<"t", "2">>
Names == {T1, T2}

\* what a task's callBack does when invoked
Callbacks == {"returns", "throws", "rejects", "pends"}

Task(name, expression, callBack, maxRuns) ==
    [name |-> name, expression |-> expression, callBack |-> callBack,
     comment |-> None, maxRuns |-> maxRuns]

ValidInputs ==
    { Task(T1, ExprQuarter, "returns", None),
      Task(T1, ExprTenth, "returns", Some(2)),
      Task(T1, ExprTenth, "throws", Some(1)),
      Task(T1, ExprYear(Y("2", "0", "2", "5")), "returns", Some(1)),
      Task(T2, ExprYear(Y("2", "0", "2", "5")), "rejects", Some(1)),
      Task(T2, ExprStarYear, "pends", None) }

InvalidInputs ==
    { Task(T1, ExprFour, "returns", None),
      Task(T1, ExprSeven, "returns", None),
      Task(T2, ExprBadDay, "returns", None),
      Task(T2, ExprYear(Y("2", "0", "1", "9")), "returns", None),
      Task(T2, ExprYear(Y("2", "1", "0", "0")), "returns", None) }

TaskInputs == ValidInputs \cup InvalidInputs

\* the addTask arguments of the timed specification: a task of minutes 0 and 1
\* without maxRuns, one with maxRuns, and a rejected expression
TimedInputs ==
    { Task(T1, ExprYear(Y("2", "0", "2", "5")), "returns", None),
      Task(T2, ExprTenth, "returns", Some(2)),
      Task(T2, ExprFour, "returns", None) }

AllInputs == TaskInputs \cup TimedInputs

\* at most MaxTasks calls of addTask succeed
MaxTasks == 2
\* no tick once a registered task has run MaxCount times
MaxCount == 2

(***************************************************************************)
(* State                                                                   *)
(***************************************************************************)
VARIABLES
    tasks,      \* line 32: the registry, a sequence of StoredTask identities
    heap,       \* the StoredTask objects in use, by identity
    created,    \* the number of StoredTask objects created so far
    runner,     \* line 33: None (null) or Some(timer)
    timers,     \* the armed wake timers (setTimeout of lines 39 and 184)
    pending,    \* the dispatch closures queued by the setTimeout of line 205
    clock,      \* the wall clock: what new Date() returns
    given,      \* history: the addTask argument each object in use was built from
    last,       \* history: the last operation, its argument and what it threw
    probe       \* a call of one of the module's pure functions and its outcome

vars == <<tasks, heap, created, runner, timers, pending, clock, given, last, probe>>

\* no pure function is being called on its own
NoProbe == [fn |-> "none", text |-> <<>>, min |-> 0, max |-> 0,
            arr |-> <<>>, value |-> 0, out |-> None]
ParseProbe(text, dom) == [NoProbe EXCEPT !.fn = "parseTimeExpression",
                            !.text = text, !.min = dom[1], !.max = dom[2]]
ExistsProbe(arr, value) == [NoProbe EXCEPT !.fn = "existsInArray",
                            !.arr = arr, !.value = value]

Error(name, template, args) == [name |-> name, template |-> template, args |-> args]

\* rep: a removeTask call that directly follows a removeTask call of the same name
Op(op, arg, err) == [op |-> op, arg |-> arg, err |-> err, rep |-> FALSE]

\* The objects of f still in use: those the registry, a queued closure or the
\* record of the dispatch that has just run refers to.  The others are garbage.
InUse(f, reg, queue, op) ==
    LET live == {reg[i] : i \in 1..Len(reg)} \cup {queue[i] : i \in 1..Len(queue)}
                    \cup (IF op.op = "dispatch" THEN {op.arg} ELSE {})
    IN  [id \in DOMAIN f \cap live |-> f[id]]

\* the heap after an operation that leaves objs, and the history with it
Collected(objs) ==
    /\ heap' = InUse(objs, tasks', pending', last')
    /\ given' = InUse(given, tasks', pending', last')

(***************************************************************************)
(* addTask (lines 51-84)                                                   *)
(***************************************************************************)
\* line 52
Fields(expression) == Split(Trim(CollapseSpaces(expression)), " ")

\* lines 61-66: the six parseTimeExpression calls, in the order they are made
ParsedFields(exp) ==
    <<parseTimeExpression(exp[1], 0, 59),
      parseTimeExpression(exp[2], 0, 23),
      parseTimeExpression(exp[3], 1, 31),
      parseTimeExpression(exp[4], 1, 12),
      parseTimeExpression(exp[5], 0, 6),
      IF Len(exp) >= 6 THEN parseTimeExpression(exp[6], 2020, 2099)
      ELSE Returned(<<>>)>>

\* the first call that throws ends the try block
FirstThrown(all) ==
    CHOOSE i \in 1..6 : all[i].threw /\ \A j \in 1..(i - 1) : ~all[j].threw

\* Fault for C7: the object literal keeps the normalised expression of line 52
\* in place of task.expression.
NewTaskNormalised(task, exp, all) ==
    [name |-> task.name,
     expression |-> Trim(CollapseSpaces(task.expression)),
     comment |-> IF task.comment = None THEN <<>> ELSE task.comment[1],
     min |-> all[1].val,
     hour |-> all[2].val,
     day |-> all[3].val,
     month |-> all[4].val,
     weekday |-> all[5].val,
     year |-> IF Len(exp) >= 6 THEN Some(all[6].val) ELSE None,
     lastRun |-> None,
     countRuns |-> 0,
     maxRuns |-> task.maxRuns,
     callBack |-> task.callBack]

\* lines 57-71: the object literal
NewTask(task, exp, all) ==
    [name |-> task.name,
     expression |-> task.expression,
     comment |-> IF task.comment = None THEN <<>> ELSE task.comment[1],
     min |-> all[1].val,
     hour |-> all[2].val,
     day |-> all[3].val,
     month |-> all[4].val,
     weekday |-> all[5].val,
     year |-> IF Len(exp) >= 6 THEN Some(all[6].val) ELSE None,
     lastRun |-> None,
     countRuns |-> 0,
     maxRuns |-> task.maxRuns,
     callBack |-> task.callBack]

Compile(task, exp, all) ==
    IF \E i \in 1..6 : all[i].threw
    THEN [threw |-> TRUE, msg |-> all[FirstThrown(all)].msg]
    ELSE [threw |-> FALSE, newTask |-> NewTask(task, exp, all)]

\* lines 54-71: the try block up to the push
TryNewTask(task) ==
    LET exp == Fields(task.expression)
    IN  IF Len(exp) > 6 \/ Len(exp) < 5
        THEN [threw |-> TRUE, msg |-> <<"Invalid expression">>]
        ELSE Compile(task, exp, ParsedFields(exp))

\* lines 77-83: the error addTask throws for an error thrown in its try block
Rethrown(task, msg) ==
    IF msg = <<"Invalid expression">>
    THEN Error("SyntaxError", "Invalid cron expression '$1' for task '$2'",
               <<task.expression, task.name>>)
    ELSE Error("Error", "Invalid expression: $1", <<msg[2]>>)

\* TryNewTask over the inputs of the model, evaluated once
Compiled == [task \in AllInputs |-> TryNewTask(task)]

\* the smallest timer identity not in use
FreshTimer(armed) == CHOOSE n \in 1..(Cardinality(armed) + 1) :
                        n \notin armed /\ \A m \in 1..(n - 1) : m \in armed

\* Fault for C16: stop leaves the wake armed.
stopKeepingWake(rnr, armed) == armed

\* stop (lines 44-49): the armed timers once runner is cleared
stop(rnr, armed) == IF rnr # None THEN armed \ {rnr[1]} ELSE armed

\* start (lines 35-42)
start ==
    LET armed == stop(runner, timers)
        t == FreshTimer(armed)
    IN  /\ runner' = Some(t)
        /\ timers' = armed \cup {t}

\* lines 72-76
AddTaskOk(task, newTask) ==
    LET id == created + 1
    IN  /\ created < MaxTasks
        /\ created' = id
        /\ tasks' = Append(tasks, id)
        /\ IF runner = None THEN start ELSE UNCHANGED <<runner, timers>>
        /\ last' = Op("addTask", task, None)
        /\ UNCHANGED <<pending, clock, probe>>
        /\ heap' = InUse((id :> newTask) @@ heap, tasks', pending', last')
        /\ given' = InUse((id :> task) @@ given, tasks', pending', last')

\* Fault for C5: the scheduler is started before the expression is validated.
AddTaskThrowsStarted(task, msg) ==
    /\ last' = Op("addTask", task, Some(Rethrown(task, msg)))
    /\ IF runner = None THEN start ELSE UNCHANGED <<runner, timers>>
    /\ UNCHANGED <<tasks, created, pending, clock, probe>>
    /\ Collected(heap)

\* lines 77-83
AddTaskThrows(task, msg) ==
    /\ last' = Op("addTask", task, Some(Rethrown(task, msg)))
    /\ UNCHANGED <<tasks, created, runner, timers, pending, clock, probe>>
    /\ Collected(heap)

AddTask(task) ==
    LET r == Compiled[task]
    IN  IF r.threw THEN AddTaskThrows(task, r.msg) ELSE AddTaskOk(task, r.newTask)

(***************************************************************************)
(* removeTask (lines 86-91) and getTasks (lines 93-106)                    *)
(***************************************************************************)
\* Fault for C6: no test of idx > -1, so that splice(-1, 1) drops the last task
\* when no task bears the name.
removeTaskUnguarded(arr, objs, name) ==
    IF \E i \in 1..Len(arr) : objs[arr[i]].name = name
    THEN LET idx == CHOOSE i \in 1..Len(arr) :
                        /\ objs[arr[i]].name = name
                        /\ \A j \in 1..(i - 1) : objs[arr[j]].name # name
         IN  SubSeq(arr, 1, idx - 1) \o SubSeq(arr, idx + 1, Len(arr))
    ELSE SubSeq(arr, 1, Len(arr) - 1)

\* Fault for C15: every task bearing the name is removed (a filter in place
\* of findIndex and splice).
removeTaskEvery(arr, objs, name) ==
    SelectSeq(arr, LAMBDA id : objs[id].name # name)

\* the array after removeTask(name): findIndex and splice
removeTask(arr, objs, name) ==
    IF \E i \in 1..Len(arr) : objs[arr[i]].name = name
    THEN LET idx == CHOOSE i \in 1..Len(arr) :
                        /\ objs[arr[i]].name = name
                        /\ \A j \in 1..(i - 1) : objs[arr[j]].name # name
         IN  SubSeq(arr, 1, idx - 1) \o SubSeq(arr, idx + 1, Len(arr))
    ELSE arr

RemoveTask(name) ==
    /\ tasks' = removeTask(tasks, heap, name)
    /\ last' = [Op("removeTask", name, None) EXCEPT
                    !.rep = (last.op = "removeTask" /\ last.arg = name)]
    /\ UNCHANGED <<created, runner, timers, pending, clock, probe>>
    /\ Collected(heap)

TaskInfo(task) ==
    [name |-> task.name, expression |-> task.expression, comment |-> task.comment,
     lastRun |-> task.lastRun, maxRuns |-> task.maxRuns, countRuns |-> task.countRuns]

getTasks == [i \in 1..Len(tasks) |-> TaskInfo(heap[tasks[i]])]

(***************************************************************************)
(* tick (lines 182-226)                                                    *)
(***************************************************************************)
\* lines 187-194
Now(d) ==
    [min |-> IF d.minutes + d.seconds > 50 THEN 1 ELSE 0,
     hour |-> d.hours,
     day |-> d.date,
     month |-> d.month + 1,
     weekday |-> d.day,
     year |-> d.fullYear]

\* Fault for C10: the year is not tested.
runTaskAnyYear(task, now) ==
    /\ existsInArray(task.min, now.min)
    /\ existsInArray(task.hour, now.hour)
    /\ existsInArray(task.day, now.day)
    /\ existsInArray(task.month, now.month)
    /\ existsInArray(task.weekday, now.weekday)

\* lines 196-201
runTask(task, now) ==
    /\ existsInArray(task.min, now.min)
    /\ existsInArray(task.hour, now.hour)
    /\ existsInArray(task.day, now.day)
    /\ existsInArray(task.month, now.month)
    /\ existsInArray(task.weekday, now.weekday)
    /\ (task.year = None \/ existsInArray(task.year[1], now.year))

\* the closures the forEach of lines 195-225 queues, in registry order
Matched(arr, objs, now) ==
    LET F[i \in 0..Len(arr)] ==
            IF i = 0 THEN <<>>
            ELSE IF runTask(objs[arr[i]], now) THEN Append(F[i - 1], arr[i])
            ELSE F[i - 1]
    IN  F[Len(arr)]

\* Fault for C8: the next wake is scheduled only while tasks are registered.
RescheduledWhileTasks(t) ==
    LET armed == timers \ {t}
        n == FreshTimer(armed)
    IN  IF tasks = <<>>
        THEN runner' = runner /\ timers' = armed
        ELSE runner' = Some(n) /\ timers' = armed \cup {n}

\* lines 183-186: the fired wake is replaced by the next one
Rescheduled(t) ==
    LET armed == timers \ {t}
        n == FreshTimer(armed)
    IN  /\ runner' = Some(n)
        /\ timers' = armed \cup {n}

\* A wake fires at date d.  The closures of the previous tick were queued with
\* a delay of 5 ms and this wake with one of at least 1000 ms (line 186), so
\* they have all run.
Tick(d) ==
    \E t \in timers :
        /\ pending = <<>>
        /\ \A i \in 1..Len(tasks) : heap[tasks[i]].countRuns < MaxCount
        /\ clock' = d
        /\ Rescheduled(t)
        /\ pending' = Matched(tasks, heap, Now(d))
        /\ last' = Op("tick", d, None)
        /\ UNCHANGED <<tasks, created, probe>>
        /\ Collected(heap)

\* lines 206-222: the closure of task id runs
Ran(id) ==
    LET task == [heap[id] EXCEPT !.lastRun = Some(clock), !.countRuns = @ + 1]
        objs == [heap EXCEPT ![id] = task]
    IN  /\ IF task.callBack = "throws"
           THEN tasks' = tasks
           ELSE IF task.maxRuns # None /\ task.maxRuns[1] # 0
                    /\ task.countRuns = task.maxRuns[1]
                THEN tasks' = removeTask(tasks, objs, task.name)
                ELSE tasks' = tasks
        /\ Collected(objs)

\* Fault for C9: a callback that throws ends the dispatches of its tick.
DispatchUntilThrow ==
    /\ pending # <<>>
    /\ pending' = IF heap[Head(pending)].callBack = "throws" THEN <<>>
                  ELSE Tail(pending)
    /\ last' = Op("dispatch", Head(pending), None)
    /\ Ran(Head(pending))
    /\ UNCHANGED <<created, runner, timers, clock, probe>>

Dispatch ==
    /\ pending # <<>>
    /\ pending' = Tail(pending)
    /\ last' = Op("dispatch", Head(pending), None)
    /\ Ran(Head(pending))
    /\ UNCHANGED <<created, runner, timers, clock, probe>>

Init ==
    /\ tasks = <<>>
    /\ heap = <<>>
    /\ created = 0
    /\ runner = None
    /\ timers = {}
    /\ pending = <<>>
    /\ clock = BaseDate
    /\ given = <<>>
    /\ last = Op("init", None, None)
    /\ probe = NoProbe

Next ==
    \/ \E task \in TaskInputs : AddTask(task)
    \/ \E name \in Names : RemoveTask(name)
    \/ \E d \in Dates : Tick(d)
    \/ Dispatch

Spec == Init /\ [][Next]_vars

(***************************************************************************)
(* The scheduler with start and stop called on their own.  Lines 228-232   *)
(* export neither; this specification lets a caller reach them, as the     *)
(* state machine of the loop (Stopped, Running) is described.              *)
(***************************************************************************)
\* start() (lines 35-42)
Start ==
    /\ start
    /\ last' = Op("start", None, None)
    /\ UNCHANGED <<tasks, created, pending, clock, probe>>
    /\ Collected(heap)

\* stop() (lines 44-49): the wake is cleared, runner is not assigned
Stop ==
    /\ timers' = stop(runner, timers)
    /\ runner' = runner
    /\ last' = Op("stop", None, None)
    /\ UNCHANGED <<tasks, created, pending, clock, probe>>
    /\ Collected(heap)

NextCtl ==
    \/ \E task \in TaskInputs : AddTask(task)
    \/ \E name \in Names : RemoveTask(name)
    \/ \E d \in Dates : Tick(d)
    \/ Dispatch
    \/ Start
    \/ Stop

SpecCtl == Init /\ [][NextCtl]_vars

(***************************************************************************)
(* The scheduler with the delay of its wakes: a wake armed at date d is    *)
(* due (60 - seconds) s later and fires then or later.  clock is the date  *)
(* read by the last start() or tick.                                       *)
(***************************************************************************)
\* the minutes of the hour a wake may fire in, and the seconds it may read
MaxMinute == 2
WakeSeconds == {0, 58}
TimedDates ==
    {[BaseDate EXCEPT !.minutes = m, !.seconds = s] :
        m \in 0..MaxMinute, s \in WakeSeconds}

\* seconds since the hour
Instant(d) == 60 * d.minutes + d.seconds
\* lines 39-41 and 184-186: the delay (60 - seconds) * 1000 ms counted from d
Due(d) == Instant(d) + (60 - d.seconds)

TickTimed(d) ==
    /\ Instant(d) >= Due(clock)
    /\ Tick(d)

NextTime ==
    \/ \E task \in TimedInputs : AddTask(task)
    \/ \E name \in Names : RemoveTask(name)
    \/ \E d \in TimedDates : TickTimed(d)
    \/ Dispatch

SpecTime == Init /\ [][NextTime]_vars

(***************************************************************************)
(* The pure functions on their own: parseTimeExpression and existsInArray  *)
(* applied to drawn arguments                                              *)
(***************************************************************************)
\* the characters of a field text and the longest text drawn from them
FieldChars == {"0", "1", "2", "-", ",", "*"}
MaxFieldLen == 5
FieldTexts == UNION {[1..n -> FieldChars] : n \in 0..MaxFieldLen}
ExampleTexts == {<<"1", ",", "3", ",", "5", "-", "7">>,
                 <<"5", "-", "7", ",", "3", ",", "1", ",", "6">>,
                 <<"2", "0", "2", "0", "-", "2", "0", "2", "2">>}
\* lines 63-68: the [min, max] of minute, hour, day, month, weekday and year
FieldDomains == {<<0, 59>>, <<0, 23>>, <<1, 31>>, <<1, 12>>, <<0, 6>>,
                 <<2020, 2099>>}

\* the ascending arrays existsInArray is given: the sets parseTimeExpression
\* returns, up to MaxArrayLen elements, and the 60 minutes of '*'
MaxArrayLen == 12
SearchedArrays ==
    {Upto(lo, lo + n - 1) : lo \in {0, 1}, n \in 1..MaxArrayLen}
    \cup {SortedSeq({2 * k : k \in 0..(n - 1)}) : n \in 1..MaxArrayLen}
    \cup {SortedSeq(S) : S \in (SUBSET {0, 3, 4, 9}) \ {{}}}
    \cup {Upto(0, 59)}
SearchedValues == 0..(2 * MaxArrayLen) \cup {30, 59, 60}

InitPure ==
    /\ tasks = <<>>
    /\ heap = <<>>
    /\ created = 0
    /\ runner = None
    /\ timers = {}
    /\ pending = <<>>
    /\ clock = BaseDate
    /\ given = <<>>
    /\ last = Op("init", None, None)
    /\ probe \in {ParseProbe(text, dom) :
                    text \in FieldTexts \cup ExampleTexts, dom \in FieldDomains}
                 \cup {ExistsProbe(arr, value) :
                        arr \in SearchedArrays, value \in SearchedValues}

\* lines 108-154 applied to the drawn text and domain
CallParse ==
    /\ probe.fn = "parseTimeExpression"
    /\ probe.out = None
    /\ probe' = [probe EXCEPT
                    !.out = Some(parseTimeExpression(probe.text, probe.min, probe.max))]
    /\ UNCHANGED <<tasks, heap, created, runner, timers, pending, clock, given, last>>

\* lines 156-180 applied to the drawn array and value
CallExists ==
    /\ probe.fn = "existsInArray"
    /\ probe.out = None
    /\ probe' = [probe EXCEPT !.out = Some(existsInArray(probe.arr, probe.value))]
    /\ UNCHANGED <<tasks, heap, created, runner, timers, pending, clock, given, last>>

NextPure == CallParse \/ CallExists

SpecPure == InitPure /\ [][NextPure]_vars

(***************************************************************************)
(* Properties                                                              *)
(***************************************************************************)
InSet(arr, v) == \E i \in 1..Len(arr) : arr[i] = v
Registered(id) == \E i \in 1..Len(tasks) : tasks[i] = id
RegisteredAfter(id) == \E i \in 1..Len(tasks') : tasks'[i] = id
Queued(id) == \E i \in 1..Len(pending) : pending[i] = id
Named(name) == \E i \in 1..Len(tasks) : heap[tasks[i]].name = name
Carries(err, text) == \E i \in 1..Len(err.args) : err.args[i] = text

\* the current time is in every compiled set of the task
TimeInSets(task, d) ==
    /\ InSet(task.min, d.minutes)
    /\ InSet(task.hour, d.hours)
    /\ InSet(task.day, d.date)
    /\ InSet(task.month, d.month + 1)
    /\ InSet(task.weekday, d.day)
    /\ (task.year = None \/ InSet(task.year[1], d.fullYear))

\* C1: at every tick a registered task is dispatched if and only if the current
\* minute, hour, day of month, month and weekday are each in the task's set and
\* its year set is null or holds the current year.
C1_DispatchedIffTimeInSets ==
    last.op = "tick" =>
        \A i \in 1..Len(tasks) :
            Queued(tasks[i]) <=> TimeInSets(heap[tasks[i]], clock)

\* C2: a task with maxRuns = N >= 1 whose callback succeeds is still registered
\* after each of its first N - 1 dispatches and is not registered after its
\* N-th dispatch, so it never runs more than N times.
C2_RemovedAtMaxRuns ==
    [][last'.op = "dispatch" =>
        LET id == Head(pending)
            task == heap'[id]
        IN  (task.callBack = "returns" /\ task.maxRuns # None) =>
                /\ task.countRuns <= task.maxRuns[1]
                /\ (task.countRuns < task.maxRuns[1] /\ Registered(id))
                       => RegisteredAfter(id)
                /\ task.countRuns = task.maxRuns[1] => ~RegisteredAfter(id)]_vars

\* C3: every dispatch of a task whose callback fails (throws or rejects) adds
\* exactly 1 to runCount, the task is removed when runCount reaches maxRuns, and
\* no registered task has a runCount above its maxRuns.
C3_FailingTaskCountedAndRemoved ==
    [][last'.op = "dispatch" =>
        LET id == Head(pending)
            task == heap'[id]
        IN  task.callBack \in {"throws", "rejects"} =>
                /\ task.countRuns = heap[id].countRuns + 1
                /\ (task.maxRuns # None /\ task.countRuns = task.maxRuns[1])
                       => ~RegisteredAfter(id)
                /\ \A i \in 1..Len(tasks') :
                       heap'[tasks'[i]].maxRuns # None =>
                           heap'[tasks'[i]].countRuns <= heap'[tasks'[i]].maxRuns[1]]_vars

\* C4: the error of a failed addTask carries the raw expression and the task
\* name, for a wrong field count and for an invalid field alike.
C4_ErrorCarriesExpressionAndName ==
    (last.op = "addTask" /\ last.err # None) =>
        /\ Carries(last.err[1], last.arg.expression)
        /\ Carries(last.err[1], last.arg.name)

\* C5: a failed addTask leaves the registry, the stored tasks and the timer
\* state as they were.
C5_FailedAddTaskChangesNothing ==
    [][(last'.op = "addTask" /\ last'.err # None) =>
        /\ tasks' = tasks
        /\ \A i \in 1..Len(tasks) : heap'[tasks[i]] = heap[tasks[i]]
        /\ getTasks' = getTasks
        /\ runner' = runner
        /\ timers' = timers]_vars

C5_Witness ==
    /\ last.op = "addTask"
    /\ last.err # None
    /\ Len(Fields(last.arg.expression)) = 6
    /\ Len(tasks) = 2
    /\ pending # <<>>

\* C6 as stated: the second of two removeTask calls in a row with the same name
\* leaves the registry as the first call left it.
C6_SecondRemoveIsNoOp ==
    [][(last'.op = "removeTask" /\ last'.rep) => tasks' = tasks]_vars

\* C6 as amended: removeTask raises no error, removes at most one task, and
\* leaves the registry unchanged when no registered task bears the name; so the
\* second of two calls in a row changes the registry only when a task of that
\* name is still registered.
C6_RemoveAbsentIsNoOp ==
    [][last'.op = "removeTask" =>
        /\ last'.err = None
        /\ Len(tasks') >= Len(tasks) - 1
        /\ ~Named(last'.arg) => tasks' = tasks
        /\ (last'.rep /\ tasks' # tasks) => Named(last'.arg)]_vars

C6_Witness ==
    /\ last.op = "removeTask"
    /\ last.rep
    /\ ~Named(last.arg)
    /\ created = 2
    /\ Len(tasks) = 1

\* C7: listTasks has one entry per registered task, in registration order, and
\* each entry's expression is the string given to addTask.
C7_ListInOrderWithOriginalExpression ==
    /\ Len(getTasks) = Len(tasks)
    /\ \A i, j \in 1..Len(tasks) : i < j => tasks[i] < tasks[j]
    /\ \A i \in 1..Len(tasks) :
          /\ getTasks[i].expression = given[tasks[i]].expression
          /\ getTasks[i].name = given[tasks[i]].name

C7_Witness ==
    /\ tasks = <<2>>
    /\ getTasks[1].expression = ExprTenth
    /\ getTasks[1].expression # Trim(CollapseSpaces(ExprTenth))
    /\ getTasks[1].countRuns >= 1

\* C8: once an addTask has succeeded a wake is pending in every state, whatever
\* the callbacks did and also when the registry is empty.
C8_WakeAlwaysPending ==
    created >= 1 => (runner # None /\ runner[1] \in timers)

C8_Witness ==
    /\ tasks = <<>>
    /\ last.op = "dispatch"
    /\ heap[last.arg].callBack = "rejects"
    /\ timers # {}

InputFields == [task \in TaskInputs |-> Fields(task.expression)]

\* the input's expression has six fields and a number below 2020 or above 2099
\* as the sixth
YearOutOfRange(task) ==
    LET exp == InputFields[task]
    IN  /\ Len(exp) = 6
        /\ IsNumber(exp[6])
        /\ (parseInt(exp[6]) < 2020 \/ parseInt(exp[6]) > 2099)

\* C10: a task of a six-field expression is dispatched only at ticks whose year
\* is in its year set; a task of a five-field expression has a null year set
\* and is dispatched whenever its five other tests pass; addTask fails for a
\* year below 2020 or above 2099.
C10_YearConstraint ==
    /\ \A id \in DOMAIN heap :
          /\ Len(InputFields[given[id]]) = 6 <=> heap[id].year # None
          /\ Len(InputFields[given[id]]) = 5 <=> heap[id].year = None
    /\ last.op = "tick" =>
          \A i \in 1..Len(tasks) :
              LET task == heap[tasks[i]]
              IN  IF task.year # None
                  THEN Queued(tasks[i]) => InSet(task.year[1], clock.fullYear)
                  ELSE Queued(tasks[i]) <=>
                          runTask(task, [Now(clock) EXCEPT !.year = 0])
    /\ (last.op = "addTask" /\ YearOutOfRange(last.arg)) => last.err # None

C10_Witness ==
    /\ last.op = "tick"
    /\ clock.fullYear = 2026
    /\ Len(tasks) = 2
    /\ heap[tasks[1]].year = None
    /\ heap[tasks[2]].year = Some(<<2025>>)
    /\ pending = <<tasks[1]>>

(***************************************************************************)
(* The field grammar as the specification states it                        *)
(***************************************************************************)
\* the number a text of decimal digits denotes, read from the left
RECURSIVE RefValue(_, _)
RefValue(t, acc) ==
    IF t = <<>> THEN acc ELSE RefValue(Tail(t), 10 * acc + DigitVal(Head(t)))

RefInteger(t) == t # <<>> /\ \A i \in DOMAIN t : t[i] \in Digits

\* a sub-term: an integer v, or a range A-B
RefTerm(t, min, max) ==
    IF RefInteger(t)
    THEN LET v == RefValue(t, 0)
         IN  [ok |-> min <= v /\ v <= max, set |-> {v}]
    ELSE IF \E k \in DOMAIN t : /\ t[k] = "-"
                                /\ RefInteger(SubSeq(t, 1, k - 1))
                                /\ RefInteger(SubSeq(t, k + 1, Len(t)))
    THEN LET k == CHOOSE k \in DOMAIN t : t[k] = "-"
             A == RefValue(SubSeq(t, 1, k - 1), 0)
             B == RefValue(SubSeq(t, k + 1, Len(t)), 0)
         IN  [ok |-> min <= A /\ B <= max /\ B > A, set |-> A..B]
    ELSE [ok |-> FALSE, set |-> {}]

\* the pieces of t between its commas
RefPieces(t) ==
    LET cuts == {0, Len(t) + 1} \cup {i \in DOMAIN t : t[i] = ","}
    IN  {SubSeq(t, a + 1, b - 1) :
            <<a, b>> \in {c \in cuts \X cuts :
                            /\ c[1] < c[2]
                            /\ \A m \in cuts : ~(c[1] < m /\ m < c[2])}}

RefField(t, min, max) ==
    IF t = <<"*">> THEN [ok |-> TRUE, set |-> min..max]
    ELSE IF \A i \in DOMAIN t : t[i] # "," THEN RefTerm(t, min, max)
    ELSE [ok |-> \A p \in RefPieces(t) : RefTerm(p, min, max).ok,
          set |-> UNION {RefTerm(p, min, max).set : p \in RefPieces(t)}]

StrictlyAscending(a) == \A i \in 1..(Len(a) - 1) : a[i] < a[i + 1]

\* C11: parseTimeExpression agrees with the field grammar on every text and
\* domain: it fails exactly when the grammar rejects the text, and otherwise
\* returns the grammar's set of values ascending and without duplicates.
C11_ParseAgreesWithGrammar ==
    (probe.fn = "parseTimeExpression" /\ probe.out # None) =>
        LET r == probe.out[1]
            ref == RefField(probe.text, probe.min, probe.max)
        IN  /\ r.threw = ~ref.ok
            /\ ref.ok => /\ StrictlyAscending(r.val)
                         /\ {r.val[i] : i \in 1..Len(r.val)} = ref.set

\* '1,3,5-7' over the months has been parsed to [1, 3, 5, 6, 7]
C11_Witness ==
    /\ probe.text = <<"1", ",", "3", ",", "5", "-", "7">>
    /\ probe.min = 1 /\ probe.max = 12
    /\ probe.out = Some(Returned(<<1, 3, 5, 6, 7>>))

\* C12: for every ascending array without duplicates, of any length,
\* existsInArray(arr, value) is TRUE exactly when value is an element of arr.
C12_ExistsIffElement ==
    (probe.fn = "existsInArray" /\ probe.out # None) =>
        probe.out[1] = (probe.value \in {probe.arr[i] : i \in 1..Len(probe.arr)})

\* the grace condition of line 188: minutes plus seconds exceed 50
Grace(d) == d.minutes + d.seconds > 50

\* C13: the minute a tick compares with the minute sets is the clock's minute
\* when the grace condition does not hold and that minute plus one when it
\* holds, and never any other value.
C13_MinuteOrNext ==
    last.op = "tick" =>
        Now(clock).min = IF Grace(clock) THEN clock.minutes + 1 ELSE clock.minutes

\* C14: after the dispatch in which a task's runCount reaches its maxRuns, that
\* task is not in the registry and every other task registered before the
\* dispatch still is, whatever names the tasks bear.
C14_RemovesTheTaskThatRan ==
    [][last'.op = "dispatch" =>
        LET id == Head(pending)
            task == heap'[id]
        IN  (task.maxRuns # None /\ task.countRuns = task.maxRuns[1]) =>
                /\ ~RegisteredAfter(id)
                /\ \A i \in 1..Len(tasks) :
                      tasks[i] # id => RegisteredAfter(tasks[i])]_vars

\* C15: removeTask(name), when a registered task bears the name, removes
\* exactly one task, the first in registration order whose name is name, and
\* leaves every other task (later tasks of the same name included), their
\* order and their run bookkeeping unchanged.
C15_RemovesFirstMatchOnly ==
    [][(last'.op = "removeTask" /\ Named(last'.arg)) =>
        \E idx \in 1..Len(tasks) :
            /\ heap[tasks[idx]].name = last'.arg
            /\ \A j \in 1..(idx - 1) : heap[tasks[j]].name # last'.arg
            /\ Len(tasks') = Len(tasks) - 1
            /\ \A i \in 1..Len(tasks') :
                  /\ tasks'[i] = IF i < idx THEN tasks[i] ELSE tasks[i + 1]
                  /\ heap'[tasks'[i]] = heap[tasks'[i]]]_vars

\* removeTask(name) has removed the first of two tasks bearing the name: the
\* second one is still registered
C15_Witness ==
    /\ last.op = "removeTask"
    /\ created = 2
    /\ tasks = <<2>>
    /\ heap[2].name = last.arg

\* C16: in every state reached by addTask, removeTask, start, stop, ticks and
\* dispatches in any order at most one wake timer is armed; after start and
\* after a tick exactly one is, the one runner refers to.
C16_AtMostOneWake ==
    /\ Cardinality(timers) <= 1
    /\ last.op \in {"start", "tick"} => (runner # None /\ timers = {runner[1]})

\* start() has been called with tasks registered and one wake is armed
C16_Witness ==
    /\ last.op = "start"
    /\ tasks # <<>>
    /\ Cardinality(timers) = 1

\* a compiled set: not empty, strictly ascending, within lo..hi
FieldSet(a, lo, hi) ==
    /\ a # <<>>
    /\ StrictlyAscending(a)
    /\ \A i \in 1..Len(a) : lo <= a[i] /\ a[i] <= hi

\* C17: every registered task has minute, hour, day, month and weekday sets
\* that are not empty, strictly ascending and within 0-59, 0-23, 1-31, 1-12
\* and 0-6, and a year set that is null or not empty, strictly ascending and
\* within 2020-2099.
C17_CompiledSetsWellFormed ==
    \A i \in 1..Len(tasks) :
        LET task == heap[tasks[i]]
        IN  /\ FieldSet(task.min, 0, 59)
            /\ FieldSet(task.hour, 0, 23)
            /\ FieldSet(task.day, 1, 31)
            /\ FieldSet(task.month, 1, 12)
            /\ FieldSet(task.weekday, 0, 6)
            /\ task.year # None => FieldSet(task.year[1], 2020, 2099)

\* a task with a list, a range, '*' and a year is registered beside one
\* without a year
C17_Witness ==
    /\ Len(tasks) = 2
    /\ heap[tasks[1]].year = None
    /\ heap[tasks[1]].min = <<0, 15, 30, 45>>
    /\ heap[tasks[1]].hour = <<0, 1, 2, 3, 4, 5, 6>>
    /\ Len(heap[tasks[1]].day) = 31
    /\ heap[tasks[2]].year = Some(<<2025>>)

\* C18: whenever no wake is armed (initially, or after stop() cleared it), an
\* addTask that succeeds starts the loop: exactly one wake is armed after it.
C18_AddTaskStartsWhenStopped ==
    [][(last'.op = "addTask" /\ last'.err = None /\ timers = {}) =>
            Cardinality(timers') = 1]_vars

\* C19: a task that removeTask has taken out of the registry is never run
\* afterwards: every closure that runs (callback invoked, lastRun and countRuns
\* updated) belongs to a task registered at that moment, also when the task
\* was removed between the tick that matched it and the closure.
C19_RemovedTaskNeverRuns ==
    [][last'.op = "dispatch" => Registered(Head(pending))]_vars

\* the calendar minute a tick at date d evaluates: the minute of d, or the
\* next one under the grace condition
TargetMinute(d) ==
    [d EXCEPT !.seconds = 0,
              !.minutes = IF Grace(d) THEN d.minutes + 1 ELSE d.minutes]

\* C20: no task is dispatched by two ticks for the same calendar minute: a
\* task matched by a tick was not run before for the minute this tick
\* evaluates, also when the previous wake fired just before the minute
\* boundary and this one (60 - seconds) s later.
C20_OncePerMinute ==
    last.op = "tick" =>
        \A i \in 1..Len(pending) :
            LET task == heap[pending[i]]
            IN  task.lastRun # None =>
                    TargetMinute(task.lastRun[1]) # TargetMinute(clock)

====
